---- MODULE Spec2Model ----
(***************************************************************************)
(* Model of GhasedakLib: the Ghasedak client (ghasedak.py), its            *)
(* ApiException (exceptions.py) and the Statuses table (status.py).        *)
(*                                                                         *)
(* Python values are records [t, n, s, l, d]: t is the type name, n the    *)
(* integer payload, s the string payload, l the elements of a list and d   *)
(* the entries of a dict (a function from key to value).                   *)
(***************************************************************************)
EXTENDS Integers, Sequences, FiniteSets, TLC

\* Longest list the mock backend puts in "items".
MaxItems == 2

-----------------------------------------------------------------------------
(* Python values *)

None == [t |-> "NoneType", n |-> 0, s |-> "", l |-> <<>>, d |-> <<>>]
PyFalse == [t |-> "bool", n |-> 0, s |-> "", l |-> <<>>, d |-> <<>>]
PyInt(n) == [t |-> "int", n |-> n, s |-> "", l |-> <<>>, d |-> <<>>]
PyStr(s) == [t |-> "str", n |-> 0, s |-> s, l |-> <<>>, d |-> <<>>]
PyList(l) == [t |-> "list", n |-> 0, s |-> "", l |-> l, d |-> <<>>]
PyDict(d) == [t |-> "dict", n |-> 0, s |-> "", l |-> <<>>, d |-> d]

\* d[k] = v on a dict's entries
Put(d, k, v) == [x \in (DOMAIN d) \cup {k} |-> IF x = k THEN v ELSE d[x]]

DigitChars == <<"0", "1", "2", "3", "4", "5", "6", "7", "8", "9">>

RECURSIVE NatToStr(_)
NatToStr(n) ==
    IF n < 10 THEN DigitChars[n + 1]
    ELSE NatToStr(n \div 10) \o DigitChars[(n % 10) + 1]

IntToStr(n) == IF n < 0 THEN "-" \o NatToStr(-n) ELSE NatToStr(n)

\* str(v) for the scalar values callers pass as arguments
Str(v) ==
    CASE v.t = "str" -> v
      [] v.t = "int" -> PyStr(IntToStr(v.n))
      [] v.t = "bool" -> PyStr(IF v.n = 0 THEN "False" ELSE "True")
      [] v.t = "NoneType" -> PyStr("None")

-----------------------------------------------------------------------------
(* Outcome of a call: a returned value or a raised exception *)

NoExc == [type |-> "", code |-> 0, message |-> ""]
Ret(v) == [kind |-> "return", val |-> v, exc |-> NoExc]
Raise(type) == [kind |-> "raise", val |-> None,
                exc |-> [type |-> type, code |-> 0, message |-> ""]]

\* raise ApiException(code, message)
ApiException(code, message) ==
    [kind |-> "raise", val |-> None,
     exc |-> [type |-> "ApiException", code |-> code, message |-> message]]

\* ApiException.__str__: falls off the end (None) outside 400..499
ApiExceptionStr(e) ==
    IF 400 <= e.code /\ e.code < 500
    THEN PyStr(IntToStr(e.code) \o " Client Error: " \o e.message)
    ELSE None

\* print(f"[Ghasedak] {api_error}"): formatting calls __str__, and a
\* __str__ that returns a non-string raises TypeError
PrintApiError(e) ==
    IF ApiExceptionStr(e).t = "str" THEN Ret(None) ELSE Raise("TypeError")

-----------------------------------------------------------------------------
(* Enumerations and the status table *)

TEXT == 1
VOICE == 2
MESSAGE_ID == 1
CHECK_ID == 2

MessageType == {TEXT, VOICE}
MessageIDType == {MESSAGE_ID, CHECK_ID}

Statuses ==
    [c \in 0..6 |->
        CASE c = 0 -> "Not received to the server"
          [] c = 1 -> "Received to the phone"
          [] c = 2 -> "Not received to the phone"
          [] c = 3 -> "Received to the contact"
          [] c = 4 -> "Not received to the contact"
          [] c = 5 -> "Receptor is in Blacklist"
          [] c = 6 -> "Given Id is wrong"]

\* A lookup that is off by one: Statuses.get(key + 1)
StatusesGetOffByOne(key) ==
    CASE key.t \in {"list", "dict"} -> Raise("TypeError")
      [] key.t \in {"int", "bool"} /\ key.n + 1 \in DOMAIN Statuses ->
            Ret(PyStr(Statuses[key.n + 1]))
      [] OTHER -> Ret(None)

\* Statuses.get(key): None for a key the table lacks, TypeError for an
\* unhashable key
StatusesGet(key) ==
    CASE key.t \in {"list", "dict"} -> Raise("TypeError")
      [] key.t \in {"int", "bool"} /\ key.n \in DOMAIN Statuses ->
            Ret(PyStr(Statuses[key.n]))
      [] OTHER -> Ret(None)

-----------------------------------------------------------------------------
(* The client and the transport *)

VARIABLES
    apikey,     \* self.apikey
    url,        \* self.url
    backend,    \* what the transport answers to the next request
    last,       \* the last public call: arguments, request and outcome
    prev        \* what the call before it returned, if it was getAccountInfo

vars == <<apikey, url, backend, last, prev>>

\* The credential the client is constructed with
ApiKey == "key-1"
BaseUrl == "https://api.ghasedak.io/v2"

\* Answers of the transport: an exception of requests, or an HTTP response
\* whose body is JSON (an envelope) or not.
NoBody == [code |-> 0, message |-> "", items |-> None]
TransportFailure(kind) == [kind |-> kind, status |-> 0, json |-> FALSE, body |-> NoBody]
HttpResponse(status, json, body) ==
    [kind |-> "http", status |-> status, json |-> json, body |-> body]
Envelope(code, message, items) == [code |-> code, message |-> message, items |-> items]

Down == TransportFailure("ConnectionError")

\* response.raise_for_status(): HTTPError for a 4xx or 5xx status
RaisesHTTPError(response) == 400 <= response.status /\ response.status < 600

\* The request makeRequest hands to requests.request
Request(endpoint, data, method) ==
    [method |-> method,
     url |-> url \o endpoint,
     data |-> IF data # None THEN data ELSE PyDict(<<>>),
     headers |-> [Accept |-> "application/json",
                  ContentType |-> "application/x-www-form-urlencoded",
                  charset |-> "utf-8",
                  apikey |-> apikey]]

\* makeRequest with "return None" in the HTTPError handler as well
makeRequestHttpErrorShortCircuits(endpoint, data, method) ==
    LET response == backend IN
    CASE response.kind = "ConnectionError" -> Ret(None)
      [] response.kind = "RequestException" -> Ret(None)
      [] OTHER ->
            IF RaisesHTTPError(response) THEN Ret(None)
            ELSE IF ~response.json THEN Raise("JSONDecodeError")
            ELSE IF response.body.code = 200 THEN Ret(response.body.items)
            ELSE ApiException(response.body.code, response.body.message)

\* Ghasedak.makeRequest against the transport's current answer. A connection
\* error or another request exception returns None; an HTTPError is printed
\* and execution goes on to response.json().
makeRequest(endpoint, data, method) ==
    LET response == backend IN
    CASE response.kind = "ConnectionError" -> Ret(None)
      [] response.kind = "RequestException" -> Ret(None)
      [] OTHER ->
            IF ~response.json THEN Raise("JSONDecodeError")
            ELSE IF response.body.code = 200 THEN Ret(response.body.items)
            ELSE ApiException(response.body.code, response.body.message)

\* except ApiException as api_error: print(...); return <sentinel>.
\* Any other exception leaves the operation.
OnApiException(out, sentinel) ==
    IF out.exc.type = "ApiException"
    THEN LET printed == PrintApiError(out.exc) IN
         IF printed.kind = "raise" THEN printed ELSE Ret(sentinel)
    ELSE out

-----------------------------------------------------------------------------
(* sendMessage *)

\* sendMessage's parameters with the "is not None" test on checkid left out
sendMessageDataAlwaysCheckid(message, receptor, linenumber, senddate, checkid) ==
    LET d0 == [message |-> Str(message), receptor |-> Str(receptor)]
        d1 == IF linenumber # None THEN Put(d0, "linenumber", Str(linenumber)) ELSE d0
        d2 == IF senddate # None THEN Put(d1, "senddate", Str(senddate)) ELSE d1
        d3 == Put(d2, "checkid", Str(checkid))
    IN PyDict(d3)

sendMessageData(message, receptor, linenumber, senddate, checkid) ==
    LET d0 == [message |-> Str(message), receptor |-> Str(receptor)]
        d1 == IF linenumber # None THEN Put(d0, "linenumber", Str(linenumber)) ELSE d0
        d2 == IF senddate # None THEN Put(d1, "senddate", Str(senddate)) ELSE d1
        d3 == IF checkid # None THEN Put(d2, "checkid", Str(checkid)) ELSE d2
    IN PyDict(d3)

\* res[1]
Subscript1(res) ==
    CASE res.t = "list" -> IF Len(res.l) >= 2 THEN Ret(res.l[2]) ELSE Raise("IndexError")
      [] res.t = "dict" -> Raise("KeyError")
      [] OTHER -> Raise("TypeError")

\* res[0], the off-by-one slip
Subscript0(res) ==
    CASE res.t = "list" -> IF Len(res.l) >= 1 THEN Ret(res.l[1]) ELSE Raise("IndexError")
      [] res.t = "dict" -> Raise("KeyError")
      [] OTHER -> Raise("TypeError")

\* sendMessage returning res[0]
sendMessageFirstItem(message, receptor, linenumber, senddate, checkid) ==
    LET data == sendMessageData(message, receptor, linenumber, senddate, checkid)
        res == makeRequest("/sms/send/simple", data, "POST")
    IN IF res.kind = "raise" THEN OnApiException(res, PyFalse)
       ELSE Subscript0(res.val)

sendMessage(message, receptor, linenumber, senddate, checkid) ==
    LET data == sendMessageData(message, receptor, linenumber, senddate, checkid)
        res == makeRequest("/sms/send/simple", data, "POST")
    IN IF res.kind = "raise" THEN OnApiException(res, PyFalse)
       ELSE Subscript1(res.val)

-----------------------------------------------------------------------------
(* sendOtpVerification *)

\* for param, value in params.items(): data[param] = str(value)
MergeParams(d, params) ==
    [x \in (DOMAIN d) \cup (DOMAIN params) |->
        IF x \in DOMAIN params THEN Str(params[x]) ELSE d[x]]

\* sendOtpVerification's parameters with param1 set before the caller's
\* extra parameters are merged, so that a caller's param1 wins
sendOtpVerificationDataCallerWins(otp, receptor, template, type, checkid, params) ==
    LET d0 == [receptor |-> Str(receptor), template |-> Str(template),
               type |-> PyInt(type)]
        d1 == IF checkid # None THEN Put(d0, "checkid", Str(checkid)) ELSE d0
        d2 == Put(d1, "param1", Str(otp))
        d3 == MergeParams(d2, params)
    IN PyDict(d3)

sendOtpVerificationData(otp, receptor, template, type, checkid, params) ==
    LET d0 == [receptor |-> Str(receptor), template |-> Str(template),
               type |-> PyInt(type)]
        d1 == IF checkid # None THEN Put(d0, "checkid", Str(checkid)) ELSE d0
        d2 == MergeParams(d1, params)
        d3 == Put(d2, "param1", Str(otp))
    IN PyDict(d3)

sendOtpVerification(otp, receptor, template, type, checkid, params) ==
    LET data == sendOtpVerificationData(otp, receptor, template, type, checkid, params)
        res == makeRequest("/verification/send/simple", data, "POST")
    IN IF res.kind = "raise" THEN OnApiException(res, PyFalse)
       ELSE res

-----------------------------------------------------------------------------
(* getSMSStatus *)

getSMSStatusData(id, type) ==
    PyDict([id |-> Str(id), type |-> PyInt(type)])

\* for item in res: item['status'] = Statuses.get(item['status']),
\* from the i-th element of the list on
RECURSIVE TranslateFrom(_, _)
TranslateFrom(l, i) ==
    IF i > Len(l) THEN Ret(PyList(l))
    ELSE LET item == l[i] IN
         IF item.t # "dict" THEN Raise("TypeError")
         ELSE IF "status" \notin DOMAIN item.d THEN Raise("KeyError")
         ELSE LET got == StatusesGet(item.d["status"]) IN
              IF got.kind = "raise" THEN got
              ELSE TranslateFrom(
                     [l EXCEPT ![i] = PyDict([item.d EXCEPT !["status"] = got.val])],
                     i + 1)

\* The loop over res: a list is walked; a dict yields its (string) keys,
\* which cannot be indexed by 'status'; anything else is not iterable.
Translate(res) ==
    CASE res.t = "list" -> TranslateFrom(res.l, 1)
      [] res.t = "dict" -> IF DOMAIN res.d = {} THEN Ret(res) ELSE Raise("TypeError")
      [] OTHER -> Raise("TypeError")

getSMSStatus(id, type) ==
    LET data == getSMSStatusData(id, type)
        res == makeRequest("/sms/status", data, "GET")
    IN IF res.kind = "raise" THEN OnApiException(res, PyFalse)
       ELSE Translate(res.val)

-----------------------------------------------------------------------------
(* getAccountInfo *)

getAccountInfo ==
    LET res == makeRequest("/account/info", None, "POST")
    IN IF res.kind = "raise" THEN OnApiException(res, None)
       ELSE res

-----------------------------------------------------------------------------
(* Callers' arguments and the transport's answers *)

Optional(S) == {None} \cup S

Receptors == {PyStr("98912345678")}
Messages == {PyStr("hello")}
LineNumbers == {PyStr("3000")}
SendDates == {PyInt(1700000000)}
CheckIds == {PyInt(42)}
Otps == {PyInt(1234)}
Templates == {PyStr("login")}
\* **params: none, or a caller's own param1 with a param2
ExtraParams ==
    {<<>>,
     [param1 |-> PyStr("evil"), param2 |-> PyInt(7)]}
Ids == {PyInt(42)}

SeqsUpTo(S) == UNION {[1..k -> S] : k \in 0..MaxItems}

\* Status codes the service may report: the table's, and one it lacks
StatusCodes == (DOMAIN Statuses) \cup {7}
StatusEntry(c) == PyDict([messageid |-> PyStr("m"), status |-> PyInt(c)])
AccountInfo == PyDict([balance |-> PyInt(1500), expire |-> PyInt(1700000000)])

ItemsSet ==
    {PyList(l) : l \in SeqsUpTo({PyStr("x"), PyStr("42")})}
    \cup {PyList(l) : l \in SeqsUpTo({StatusEntry(c) : c \in StatusCodes})}
    \cup {AccountInfo, None}

Envelopes ==
    {Envelope(200, "ok", items) : items \in ItemsSet}
    \cup {Envelope(402, "Insufficient credit", None),
          Envelope(500, "Internal error", None),
          Envelope(100, "Continue", None)}

HttpStatuses == {200, 404, 500}

Responses ==
    {Down, TransportFailure("RequestException")}
    \cup {HttpResponse(s, TRUE, e) : s \in HttpStatuses, e \in Envelopes}
    \cup {HttpResponse(s, FALSE, NoBody) : s \in HttpStatuses}

-----------------------------------------------------------------------------
(* The state machine: one action per public operation, and the backend *)

NoCall ==
    [op |-> "none", args |-> <<>>, request |-> <<>>,
     dispatch |-> Ret(None), result |-> Ret(None)]

NoPrev == [valid |-> FALSE, result |-> Ret(None)]

\* The record of the call before the one being made
Shift == IF last.op = "getAccountInfo"
         THEN [valid |-> TRUE, result |-> last.result]
         ELSE NoPrev

\* Ghasedak.__init__; nothing has been asked of the transport yet
Init ==
    /\ apikey = ApiKey
    /\ url = BaseUrl
    /\ backend = Down
    /\ last = NoCall
    /\ prev = NoPrev

CallSendMessage ==
    \E message \in Messages, receptor \in Receptors,
       linenumber \in Optional(LineNumbers), senddate \in Optional(SendDates),
       checkid \in Optional(CheckIds) :
        LET data == sendMessageData(message, receptor, linenumber, senddate, checkid) IN
        /\ last' = [op |-> "sendMessage",
                    args |-> [message |-> message, receptor |-> receptor,
                              linenumber |-> linenumber, senddate |-> senddate,
                              checkid |-> checkid],
                    request |-> Request("/sms/send/simple", data, "POST"),
                    dispatch |-> makeRequest("/sms/send/simple", data, "POST"),
                    result |-> sendMessage(message, receptor, linenumber, senddate, checkid)]
        /\ prev' = Shift
        /\ UNCHANGED <<apikey, url, backend>>

CallSendOtpVerification ==
    \E otp \in Otps, receptor \in Receptors, template \in Templates,
       type \in MessageType, checkid \in Optional(CheckIds), params \in ExtraParams :
        LET data == sendOtpVerificationData(otp, receptor, template, type, checkid, params) IN
        /\ last' = [op |-> "sendOtpVerification",
                    args |-> [otp |-> otp, receptor |-> receptor, template |-> template,
                              type |-> type, checkid |-> checkid, params |-> params],
                    request |-> Request("/verification/send/simple", data, "POST"),
                    dispatch |-> makeRequest("/verification/send/simple", data, "POST"),
                    result |-> sendOtpVerification(otp, receptor, template, type,
                                                   checkid, params)]
        /\ prev' = Shift
        /\ UNCHANGED <<apikey, url, backend>>

CallGetSMSStatus ==
    \E id \in Ids, type \in MessageIDType :
        LET data == getSMSStatusData(id, type) IN
        /\ last' = [op |-> "getSMSStatus",
                    args |-> [id |-> id, type |-> type],
                    request |-> Request("/sms/status", data, "GET"),
                    dispatch |-> makeRequest("/sms/status", data, "GET"),
                    result |-> getSMSStatus(id, type)]
        /\ prev' = Shift
        /\ UNCHANGED <<apikey, url, backend>>

\* getAccountInfo with "self.url += endpoint" in the dispatch
CallGetAccountInfoAppendsUrl ==
    /\ last' = [op |-> "getAccountInfo",
                args |-> <<>>,
                request |-> Request("/account/info", None, "POST"),
                dispatch |-> makeRequest("/account/info", None, "POST"),
                result |-> getAccountInfo]
    /\ url' = url \o "/account/info"
    /\ prev' = Shift
    /\ UNCHANGED <<apikey, backend>>

CallGetAccountInfo ==
    /\ last' = [op |-> "getAccountInfo",
                args |-> <<>>,
                request |-> Request("/account/info", None, "POST"),
                dispatch |-> makeRequest("/account/info", None, "POST"),
                result |-> getAccountInfo]
    /\ prev' = Shift
    /\ UNCHANGED <<apikey, url, backend>>

\* The service becomes unreachable: requests fail with a ConnectionError
BackendDown ==
    /\ backend # Down
    /\ backend' = Down
    /\ last' = NoCall
    /\ prev' = NoPrev
    /\ UNCHANGED <<apikey, url>>

\* The service comes up answering every request with one response
BackendUp ==
    /\ backend = Down
    /\ \E r \in Responses \ {Down} : backend' = r
    /\ last' = NoCall
    /\ prev' = NoPrev
    /\ UNCHANGED <<apikey, url>>

Next ==
    \/ CallSendMessage
    \/ CallSendOtpVerification
    \/ CallGetSMSStatus
    \/ CallGetAccountInfo
    \/ BackendDown
    \/ BackendUp

Spec == Init /\ [][Next]_vars

-----------------------------------------------------------------------------
(* Properties *)

PublicOps == {"sendMessage", "sendOtpVerification", "getSMSStatus", "getAccountInfo"}

\* The failure sentinel of a public operation
Sentinel(op) == IF op = "getAccountInfo" THEN None ELSE PyFalse

\* The transport answered the last call with a JSON envelope
AnsweredEnvelope == last.op \in PublicOps /\ backend.kind = "http" /\ backend.json

\* The parameters the last call handed to makeRequest
Params == last.request.data.d

\* The envelope's items are a list of status entries with integer codes
StatusItems ==
    /\ backend.body.items.t = "list"
    /\ \A i \in 1..Len(backend.body.items.l) :
          /\ backend.body.items.l[i].t = "dict"
          /\ "status" \in DOMAIN backend.body.items.l[i].d
          /\ backend.body.items.l[i].d["status"].t = "int"

StatusCodeAt(i) == backend.body.items.l[i].d["status"].n

\* C1: whenever the envelope's result.code is not 200, each of the four
\* public operations returns its failure sentinel (False, or None for
\* getAccountInfo) and raises nothing.
C1_ErrorCodeYieldsSentinel ==
    (AnsweredEnvelope /\ backend.body.code # 200)
        => last.result = Ret(Sentinel(last.op))

\* C2: whenever the transport fails at connection level (connection error
\* or another request exception), each of the four public operations
\* returns to its caller and raises nothing.
C2_TransportFailureNeverRaises ==
    (last.op \in PublicOps /\ backend.kind \in {"ConnectionError", "RequestException"})
        => last.result.kind = "return"

\* C3: the parameters sendOtpVerification hands to makeRequest have param1
\* equal to the string form of otp, whatever the extra parameters hold.
C3_Param1IsOtp ==
    last.op = "sendOtpVerification"
        => /\ "param1" \in DOMAIN Params
           /\ Params["param1"].t = "str"
           /\ Params["param1"] = Str(last.args.otp)

C3_Witness ==
    /\ last.op = "sendOtpVerification"
    /\ "param1" \in DOMAIN last.args.params
    /\ last.args.params["param1"] = PyStr("evil")
    /\ last.args.otp = PyInt(1234)
    /\ Params["param1"] = PyStr("1234")

\* C4: when result.code is 200 and items is an array with a second element,
\* sendMessage returns that second element (index 1), not the first.
C4_SendMessageReturnsSecondItem ==
    (/\ last.op = "sendMessage"
     /\ AnsweredEnvelope
     /\ backend.body.code = 200
     /\ backend.body.items.t = "list"
     /\ Len(backend.body.items.l) >= 2)
        => /\ last.result = Ret(backend.body.items.l[2])
           /\ (backend.body.items.l[1] # backend.body.items.l[2]
                 => last.result # Ret(backend.body.items.l[1]))

C4_Witness ==
    /\ last.op = "sendMessage"
    /\ AnsweredEnvelope
    /\ backend.body.code = 200
    /\ backend.body.items = PyList(<<PyStr("x"), PyStr("42")>>)
    /\ last.result = Ret(PyStr("42"))

\* C5: for a successful getSMSStatus whose entries carry status codes in
\* 0..6, the returned sequence has as many entries, in the same order, and
\* each entry's status is the table's string for its code (5 becomes
\* "Receptor is in Blacklist"), not the integer; other fields are kept.
C5_StatusesTranslated ==
    (/\ last.op = "getSMSStatus"
     /\ AnsweredEnvelope
     /\ backend.body.code = 200
     /\ StatusItems
     /\ \A i \in 1..Len(backend.body.items.l) : StatusCodeAt(i) \in 0..6)
        => /\ last.result.kind = "return"
           /\ last.result.val.t = "list"
           /\ Len(last.result.val.l) = Len(backend.body.items.l)
           /\ \A i \in 1..Len(backend.body.items.l) :
                 LET got == last.result.val.l[i]
                     sent == backend.body.items.l[i] IN
                 /\ got.t = "dict"
                 /\ DOMAIN got.d = DOMAIN sent.d
                 /\ got.d["status"].t = "str"
                 /\ got.d["status"].s = Statuses[StatusCodeAt(i)]
                 /\ (StatusCodeAt(i) = 5
                       => got.d["status"].s = "Receptor is in Blacklist")
                 /\ \A k \in (DOMAIN sent.d) \ {"status"} : got.d[k] = sent.d[k]

C5_Witness ==
    /\ last.op = "getSMSStatus"
    /\ AnsweredEnvelope
    /\ backend.body.code = 200
    /\ backend.body.items = PyList(<<StatusEntry(5), StatusEntry(0)>>)
    /\ last.result.kind = "return"
    /\ last.result.val.l[1].d["status"] = PyStr("Receptor is in Blacklist")
    /\ last.result.val.l[2].d["status"] = PyStr("Not received to the server")

\* C6: every parameter value a public operation hands to makeRequest is a
\* string, the type parameter included.
C6_AllParamsAreStrings ==
    last.op \in PublicOps
        => \A k \in DOMAIN Params : Params[k].t = "str"

\* C7: sendMessage's parameters always hold message and receptor, and hold
\* linenumber, senddate and checkid exactly when that argument was given;
\* with all three omitted the keys are exactly message and receptor.
C7_SendMessageKeys ==
    last.op = "sendMessage"
        => /\ {"message", "receptor"} \subseteq DOMAIN Params
           /\ DOMAIN Params \subseteq
                 {"message", "receptor", "linenumber", "senddate", "checkid"}
           /\ ("linenumber" \in DOMAIN Params <=> last.args.linenumber # None)
           /\ ("senddate" \in DOMAIN Params <=> last.args.senddate # None)
           /\ ("checkid" \in DOMAIN Params <=> last.args.checkid # None)
           /\ ((/\ last.args.linenumber = None
                /\ last.args.senddate = None
                /\ last.args.checkid = None)
                 => DOMAIN Params = {"message", "receptor"})

C7_Witness ==
    /\ last.op = "sendMessage"
    /\ last.args.linenumber = None
    /\ last.args.senddate # None
    /\ last.args.checkid = None
    /\ DOMAIN Params = {"message", "receptor", "senddate"}

\* C8: no public operation changes the client's apikey or base url, and a
\* getAccountInfo that directly follows a getAccountInfo against the same
\* backend answer returns what the first returned.
C8_GetAccountInfoIdempotent ==
    /\ apikey = ApiKey
    /\ url = BaseUrl
    /\ last.op \in PublicOps =>
          /\ last.request.headers.apikey = ApiKey
          /\ \E endpoint \in {"/sms/send/simple", "/verification/send/simple",
                              "/sms/status", "/account/info"} :
                last.request.url = BaseUrl \o endpoint
    /\ (last.op = "getAccountInfo" /\ prev.valid) => last.result = prev.result

C8_Witness ==
    /\ last.op = "getAccountInfo"
    /\ prev.valid
    /\ backend.kind = "http"
    /\ backend.body.items = AccountInfo
    /\ last.result = Ret(AccountInfo)
    /\ prev.result = Ret(AccountInfo)

\* C9: when a successful getSMSStatus response holds an entry whose status
\* code is outside 0..6, the operation returns and that entry's status is a
\* string derived from the code, not an absent value.
C9_UnknownStatusHasFallback ==
    (/\ last.op = "getSMSStatus"
     /\ AnsweredEnvelope
     /\ backend.body.code = 200
     /\ StatusItems
     /\ \E i \in 1..Len(backend.body.items.l) : StatusCodeAt(i) \notin 0..6)
        => /\ last.result.kind = "return"
           /\ \A i \in 1..Len(backend.body.items.l) :
                 StatusCodeAt(i) \notin 0..6
                    => last.result.val.l[i].d["status"].t = "str"

\* C10: whatever the HTTP status of a completed round-trip, 4xx and 5xx
\* included, makeRequest parses the body as an envelope: it returns items
\* when result.code is 200 and otherwise raises an ApiException carrying
\* result.code and result.message.
C10_HttpErrorFallsThrough ==
    AnsweredEnvelope
        => IF backend.body.code = 200
           THEN /\ last.dispatch.kind = "return"
                /\ last.dispatch.val = backend.body.items
           ELSE /\ last.dispatch.kind = "raise"
                /\ last.dispatch.exc.type = "ApiException"
                /\ last.dispatch.exc.code = backend.body.code
                /\ last.dispatch.exc.message = backend.body.message

C10_Witness ==
    /\ AnsweredEnvelope
    /\ RaisesHTTPError(backend)
    /\ backend.status = 500
    /\ backend.body.code = 402
    /\ last.dispatch.kind = "raise"
    /\ last.dispatch.exc.code = 402
    /\ last.dispatch.exc.message = "Insufficient credit"

====
